---- MODULE Spec2Model ----
(***************************************************************************)
(* Model of the Opportunity.ai repository: the Supabase schema (tables,    *)
(* constraints, row level security policies), the profile provisioning      *)
(* service (ProfileService.getOrCreateProfile, ensureProfile), the audit    *)
(* writer (logAction) and the application pipeline operations.             *)
(***************************************************************************)
EXTENDS Integers, Sequences, FiniteSets, TLC

\* ------------------------------------------------------------------ bounds
\* login() and logout() calls of the mock service in one behaviour
MaxMockCalls == 3
\* The time the mock service is followed, in units of 500 ms
MaxTime == 4
MaxCalls == 3
MaxJobs == 1
MaxApps == 2
MaxOps == 2
MaxUpdates == 3
MaxArts == 2
MaxIsoArts == 1
MaxLen == 2

\* ------------------------------------------------------------------ domains
Users == {"u1", "u2"}
Calls == 1..MaxCalls

\* auth.getUser() yields a user or none (no session)
NoUser == "none"

\* applications.status / jobs.status check constraint
Statuses == {"saved", "applied", "interview", "offer", "rejected"}
\* status text default 'saved'
DefaultStatus == "saved"
\* jobs.status, nullable: the null status
NoStatus == "null"
\* applied_at timestamptz, nullable: the null timestamp
NoTime == 0
\* notes text, nullable
NoNotes == "null"
\* artifacts.job_id, nullable: no job
NoJob == 0
\* seniority_level, nullable
NoSeniority == "null"

VARIABLES
  profiles,      \* rows of table profiles
  call,          \* one record per ensureProfile invocation in flight
  display,       \* a user's name hints and the display names derived from them
  users,         \* ids of the rows of auth.users
  callback,      \* the request the OAuth callback handler is serving
  env,           \* process.env and what validateEnv / assertEnv made of it
  mock,          \* MockAuthService: currentUser and the calls in flight
  jobs,          \* rows of table jobs
  applications,  \* rows of table applications
  artifacts,     \* rows of table artifacts
  approvals,     \* ids of the artifacts an approveArtifact call has approved
  audit_log,     \* rows of table audit_log, in insertion order
  nextJob,       \* gen_random_uuid() for jobs: ids are never reused
  nextApp,       \* gen_random_uuid() for applications
  nextArt,       \* gen_random_uuid() for artifacts
  clock,         \* now(), as the number of the next timestamp handed out
  last,          \* the response to the last request
  budget,        \* number of pipeline writes the run may still make
  mutations      \* number of pipeline operations that reported success

profileVars == <<profiles, call>>
webVars == <<callback, env, mock>>
sessionVars == <<call, display, users, webVars>>
artVars == <<artifacts, approvals, nextArt>>
dbVars == <<jobs, applications, artifacts, approvals, audit_log, nextJob, nextApp, nextArt,
           clock, last, budget, mutations>>
vars == <<profiles, call, display, users, callback, env, mock, jobs, applications, artifacts, approvals, audit_log, nextJob,
          nextApp, nextArt, clock, last, budget, mutations>>

\* ------------------------------------------------------------------ profiles
\* The row getOrCreateProfile inserts for a user; the service keys the row on
\* the user's id.
NewProfile(u) == [id |-> u, user_id |-> u, seniority_level |-> NoSeniority]

\* select('*').eq('id', user.id).single(): the row, as a set of at most one
ProfileById(u) == {p \in profiles : p.id = u}

\* The key constraint of table profiles: a second row for the same key is a
\* unique violation (SQLSTATE 23505).
ProfileKeyTaken(u) == ProfileById(u) # {}

\* A JavaScript string value or undefined: present says which, text holds the
\* characters
Undefined == [present |-> FALSE, text |-> <<>>]
Str(t) == [present |-> TRUE, text |-> t]

\* No name has been derived
NoDisplay == [full_name |-> Undefined, name |-> Undefined, email |-> Undefined,
              profileName |-> Undefined, menuName |-> Undefined]

\* No request at the OAuth callback, no environment looked at, nobody logged in
\* at the mock service
NoCallback == [pc |-> "idle"]
NoEnv == [pc |-> "idle"]
NoMock == [pc |-> "idle"]
WebIdle == callback = NoCallback /\ env = NoEnv /\ mock = NoMock

IdleCall == [pc |-> "idle", user |-> NoUser, fetchError |-> "none",
             inserted |-> FALSE, inserts |-> 0, data |-> {}, error |-> "none",
             cause |-> "none", result |-> "none"]

\* ensureProfile() up to the call of getOrCreateProfile: getUser() gives the
\* session's user, or the action returns { error: 'Not authenticated' }.
EnsureProfile(c) ==
  /\ call[c].pc = "idle"
  /\ \E u \in Users \cup {NoUser} :
       call' = [call EXCEPT ![c] =
                  IF u = NoUser
                  THEN [@ EXCEPT !.pc = "done", !.result = "Not authenticated"]
                  ELSE [@ EXCEPT !.pc = "select", !.user = u]]
  /\ UNCHANGED <<profiles, display, users, webVars, dbVars>>

\* What ensureProfile returns for a result { data, error } of getOrCreateProfile
EnsureResult(error) == IF error # "none" THEN "Failed to create profile" ELSE "success"

\* What the value ensureProfile returns holds of profileError: nothing, the
\* error is written to the console and { error: 'Failed to create profile' } is
\* returned
EnsureCause(error) == "none"

\* Mutant: the existing row is never recognised
ExistingProfile_Never(data) == FALSE

\* if (existingProfile): the select produced a row
ExistingProfile(data) == data # {}

\* getOrCreateProfile, first await: the select. fetchError is never read; only
\* a non-null row short-circuits.
GetOrCreateProfile_Select(c) ==
  /\ call[c].pc = "select"
  /\ \E up \in BOOLEAN :
       LET found == IF up THEN ProfileById(call[c].user) ELSE {}
           ferr  == IF ~up THEN "storage"
                    ELSE IF found = {} THEN "PGRST116" ELSE "none"
       IN  call' = [call EXCEPT ![c] =
                      IF ExistingProfile(found)
                      THEN [@ EXCEPT !.pc = "done", !.fetchError = ferr, !.data = found,
                                     !.error = "none", !.result = EnsureResult("none")]
                      ELSE [@ EXCEPT !.pc = "insert", !.fetchError = ferr]]
  /\ UNCHANGED <<profiles, display, users, webVars, dbVars>>

\* getOrCreateProfile, second await: the insert, and the return through
\* ensureProfile. A createError is returned as it is: no second select.
GetOrCreateProfile_Insert(c) ==
  /\ call[c].pc = "insert"
  /\ \E up \in BOOLEAN :
       LET u    == call[c].user
           cerr == IF ~up THEN "storage"
                   ELSE IF ProfileKeyTaken(u) THEN "23505" ELSE "none"
       IN  IF cerr = "none"
           THEN /\ profiles' = profiles \cup {NewProfile(u)}
                /\ call' = [call EXCEPT ![c] =
                             [@ EXCEPT !.pc = "done", !.inserted = TRUE,
                                       !.inserts = @ + 1,
                                       !.data = {NewProfile(u)}, !.error = "none",
                                       !.result = EnsureResult("none")]]
           ELSE /\ profiles' = profiles
                /\ call' = [call EXCEPT ![c] =
                             [@ EXCEPT !.pc = "done", !.inserts = @ + 1,
                                       !.data = {}, !.error = cerr,
                                       !.cause = EnsureCause(cerr),
                                       !.result = EnsureResult(cerr)]]
  /\ UNCHANGED <<display, users, webVars, dbVars>>

NoRequest == [op |-> "none", result |-> "none", audit |-> "none"]

DbInit(ops) ==
  /\ jobs = {}
  /\ applications = {}
  /\ artifacts = {}
  /\ approvals = {}
  /\ audit_log = <<>>
  /\ nextJob = 1
  /\ nextApp = 1
  /\ nextArt = 1
  /\ clock = 1
  /\ last = NoRequest
  /\ budget = ops
  /\ mutations = 0
  /\ users = Users

ProfileInit ==
  /\ profiles = {}
  /\ call = [c \in Calls |-> IdleCall]
  /\ WebIdle
  /\ display = NoDisplay
  /\ DbInit(0)

ProfileNext ==
  \/ \E c \in Calls : EnsureProfile(c)
  \/ \E c \in Calls : GetOrCreateProfile_Select(c)
  \/ \E c \in Calls : GetOrCreateProfile_Insert(c)

SpecProfile == ProfileInit /\ [][ProfileNext]_vars

\* ------------------------------------------------------------------ display name
\* The characters strings are made of
Chars == {"a", "@"}

\* The strings of at most MaxLen characters
Texts == UNION {[1..n -> Chars] : n \in 0..MaxLen}

\* The literal 'User'
UserLiteral == <<"U", "s", "e", "r">>

\* Mutant: a ?? b, which only skips undefined
Or_Nullish(a, b) == IF a.present THEN a ELSE b

\* a || b: a unless a is falsy (undefined or the empty string)
Or(a, b) == IF a.present /\ a.text # <<>> THEN a ELSE b

\* t.split('@')[0]: the characters of t before its first '@'
RECURSIVE Split0(_)
Split0(t) ==
  IF t = <<>> \/ Head(t) = "@" THEN <<>> ELSE <<Head(t)>> \o Split0(Tail(t))

\* user.email?.split('@')[0]
EmailSplit(email) == IF email.present THEN Str(Split0(email.text)) ELSE Undefined

\* full_name || name || email?.split('@')[0] || 'User', as getOrCreateProfile
\* computes the full_name of a new profile
ProfileFullName(full_name, name, email) ==
  Or(Or(Or(full_name, name), EmailSplit(email)), Str(UserLiteral))

\* The same expression in UserMenu
MenuDisplayName(full_name, name, email) ==
  Or(Or(Or(full_name, name), EmailSplit(email)), Str(UserLiteral))

\* The name hints a user can come with
MetaValues == {Undefined, Str(<<>>)} \cup {Str(<<ch>>) : ch \in {"a", "b"}}
Emails == {Undefined} \cup {Str(t) : t \in Texts}

NameInit ==
  /\ profiles = {}
  /\ call = [c \in Calls |-> IdleCall]
  /\ WebIdle
  /\ DbInit(0)
  /\ \E f \in MetaValues, n \in MetaValues, e \in Emails :
       display = [NoDisplay EXCEPT !.full_name = f, !.name = n, !.email = e]

\* getOrCreateProfile derives the full_name of the profile it is about to insert
DeriveProfileName ==
  /\ display' = [display EXCEPT !.profileName =
                   ProfileFullName(display.full_name, display.name, display.email)]
  /\ UNCHANGED <<profiles, call, users, webVars, dbVars>>

\* UserMenu renders the display name
RenderUserMenu ==
  /\ display' = [display EXCEPT !.menuName =
                   MenuDisplayName(display.full_name, display.name, display.email)]
  /\ UNCHANGED <<profiles, call, users, webVars, dbVars>>

NameNext == DeriveProfileName \/ RenderUserMenu

SpecName == NameInit /\ [][NameNext]_vars

\* ------------------------------------------------------------------ OAuth callback
\* A value is truthy: a string that is there and not empty
Truthy(v) == v.present /\ v.text # <<>>

\* The origin of request.url
RequestOrigin == "app"

\* '/dashboard'
DashboardPath == <<"/", "dashboard">>

\* The code parameters a request comes with: absent, empty, a code
CodeValues == {Undefined, Str(<<>>), Str(<<"c">>)}

\* The next parameters a request comes with: absent, empty, a path, a relative
\* path, an absolute URL, a protocol-relative URL, and the same with a backslash
NextValues ==
  {Undefined, Str(<<>>), Str(<<"/", "settings">>), Str(<<"settings">>),
   Str(<<"https:", "/", "/", "evil", "/", "x">>),
   Str(<<"/", "/", "evil", "/", "x">>),
   Str(<<"/", "\\", "evil">>)}

\* The values of NEXT_PUBLIC_SUPABASE_URL / NEXT_PUBLIC_SUPABASE_ANON_KEY
ConfigValues == {Undefined, Str(<<>>), Str(<<"v">>)}

\* The error messages exchangeCodeForSession answers with
ErrorMessages == {<<"a">>, <<"a", " ", "%">>, <<"&", "a">>}

\* What ensureProfile() returns
EnsureResults == {"success", "Not authenticated", "Failed to create profile"}

IsSlash(ch) == ch \in {"/", "\\"}

\* The index of the first token of t from index i on that is no slash (or
\* Len(t) + 1)
RECURSIVE SkipSlashes(_, _)
SkipSlashes(t, i) ==
  IF i > Len(t) \/ ~ IsSlash(t[i]) THEN i ELSE SkipSlashes(t, i + 1)

\* new URL(t, request.url): a string with a scheme, or one that starts with two
\* slashes (a backslash counts as a slash), names its own host; every other
\* string is resolved against the origin of the request
ResolveURL(t) ==
  LET from == IF Len(t) >= 1 /\ t[1] = "https:" THEN SkipSlashes(t, 2)
              ELSE IF Len(t) >= 2 /\ IsSlash(t[1]) /\ IsSlash(t[2]) THEN SkipSlashes(t, 3)
              ELSE 0
  IN  IF from = 0 \/ from > Len(t)
      THEN [origin |-> RequestOrigin, path |-> t, error |-> Undefined]
      ELSE [origin |-> t[from], path |-> SubSeq(t, from + 1, Len(t)), error |-> Undefined]

\* encodeURIComponent, character by character
EncodeChar(ch) ==
  IF ch = " " THEN <<"%", "2", "0">>
  ELSE IF ch = "%" THEN <<"%", "2", "5">>
  ELSE IF ch = "&" THEN <<"%", "2", "6">>
  ELSE <<ch>>

RECURSIVE EncodeURIComponent(_)
EncodeURIComponent(t) ==
  IF t = <<>> THEN <<>> ELSE EncodeChar(Head(t)) \o EncodeURIComponent(Tail(t))

\* new URL(`/login?error=${value}`, request.url)
LoginRedirect(value) ==
  [origin |-> RequestOrigin, path |-> <<"/", "login">>, error |-> Str(value)]

\* Mutant: the handler goes on without a code
HasCode_Always(code) == TRUE

\* if (code)
HasCode(code) == Truthy(code)

\* Mutant: only the URL is looked at
ConfigMissing_UrlOnly(url, key) == ~ Truthy(url)

\* if (!supabaseUrl || !supabaseAnonKey)
ConfigMissing(url, key) == ~ Truthy(url) \/ ~ Truthy(key)

\* searchParams.get('next') || '/dashboard'
NextOrDashboard(next) == IF Truthy(next) THEN next.text ELSE DashboardPath

\* GET, up to the first await: the parameters are read; without code the
\* handler redirects to next, with a code and without configuration to the
\* login page
GET_Start(code, next, url, key) ==
  /\ callback.pc = "idle"
  /\ callback' =
       LET req == [code |-> code, next |-> next, url |-> url, key |-> key,
                   exchangeError |-> Undefined, exchanged |-> FALSE,
                   ensureCalls |-> 0, ensureResult |-> "none", redirects |-> 0,
                   redirect |-> ResolveURL(<<>>)]
       IN  IF ~ HasCode(code)
           THEN [req EXCEPT !.redirect = ResolveURL(NextOrDashboard(next)),
                            !.redirects = 1] @@ [pc |-> "done"]
           ELSE IF ConfigMissing(url, key)
           THEN [req EXCEPT !.redirect = LoginRedirect(<<"configuration">>),
                            !.redirects = 1] @@ [pc |-> "done"]
           ELSE req @@ [pc |-> "exchange"]
  /\ UNCHANGED <<profiles, call, display, users, env, mock, dbVars>>

\* GET, await supabase.auth.exchangeCodeForSession(code): with an error the
\* handler redirects to the login page with the encoded message
GET_Exchange(error) ==
  /\ callback.pc = "exchange"
  /\ callback' =
       IF error.present
       THEN [callback EXCEPT !.pc = "done", !.exchangeError = error,
                             !.redirect = LoginRedirect(EncodeURIComponent(error.text)),
                             !.redirects = @ + 1]
       ELSE [callback EXCEPT !.pc = "ensure", !.exchanged = TRUE]
  /\ UNCHANGED <<profiles, call, display, users, env, mock, dbVars>>

\* GET, await ensureProfile() and the final redirect: what ensureProfile
\* returns is not looked at
GET_EnsureProfile(result) ==
  /\ callback.pc = "ensure"
  /\ callback' = [callback EXCEPT !.pc = "done",
                                  !.ensureCalls = @ + 1,
                                  !.ensureResult = result,
                                  !.redirect = ResolveURL(NextOrDashboard(callback.next)),
                                  !.redirects = @ + 1]
  /\ UNCHANGED <<profiles, call, display, users, env, mock, dbVars>>

\* decodeURIComponent of the login page, character by character
HexChar(a, b) ==
  IF <<a, b>> = <<"2", "0">> THEN " "
  ELSE IF <<a, b>> = <<"2", "5">> THEN "%"
  ELSE IF <<a, b>> = <<"2", "6">> THEN "&"
  ELSE "malformed"

RECURSIVE DecodeURIComponent(_)
DecodeURIComponent(t) ==
  IF t = <<>> THEN <<>>
  ELSE IF Head(t) # "%" THEN <<Head(t)>> \o DecodeURIComponent(Tail(t))
  ELSE IF Len(t) < 3 THEN <<"malformed">>
  ELSE <<HexChar(t[2], t[3])>> \o DecodeURIComponent(SubSeq(t, 4, Len(t)))

CallbackNext ==
  \/ \E code \in CodeValues, next \in NextValues, url \in ConfigValues,
        key \in ConfigValues : GET_Start(code, next, url, key)
  \/ \E error \in {Undefined} \cup {Str(m) : m \in ErrorMessages} : GET_Exchange(error)
  \/ \E result \in EnsureResults : GET_EnsureProfile(result)

CallbackInit ==
  /\ profiles = {}
  /\ call = [c \in Calls |-> IdleCall]
  /\ WebIdle
  /\ display = NoDisplay
  /\ DbInit(0)

SpecCallback == CallbackInit /\ [][CallbackNext]_vars

\* ------------------------------------------------------------------ environment
\* REQUIRED_ENV_VARS, in declaration order
REQUIRED_ENV_VARS ==
  <<"NEXT_PUBLIC_SUPABASE_URL", "NEXT_PUBLIC_SUPABASE_ANON_KEY",
    "SUPABASE_SERVICE_ROLE_KEY", "OPENAI_API_KEY">>

RequiredNames == {REQUIRED_ENV_VARS[i] : i \in 1..Len(REQUIRED_ENV_VARS)}

\* The characters String.prototype.trim removes
Whitespace == {" ", "\t"}

\* The values an environment variable is given: unset, and the texts of up to
\* MaxLen blanks and letters, and one with a tab
EnvTexts == UNION {[1..n -> {" ", "x"}] : n \in 0..MaxLen}
EnvValues == {Undefined} \cup {Str(t) : t \in EnvTexts} \cup {Str(<<"\t", " ">>)}

RECURSIVE TrimStart(_)
TrimStart(t) ==
  IF t # <<>> /\ Head(t) \in Whitespace THEN TrimStart(Tail(t)) ELSE t

RECURSIVE TrimEnd(_)
TrimEnd(t) ==
  IF t # <<>> /\ t[Len(t)] \in Whitespace THEN TrimEnd(SubSeq(t, 1, Len(t) - 1)) ELSE t

\* Mutant: the value is taken as it is
Trim_None(t) == t

\* String.prototype.trim
Trim(t) == TrimEnd(TrimStart(t))

\* !process.env[key]?.trim()
IsMissing(v) == ~ (v.present /\ Trim(v.text) # <<>>)

\* for (const key of REQUIRED_ENV_VARS) { if (...) missing.push(key) }, from
\* the i-th name on
RECURSIVE MissingLoop(_, _, _)
MissingLoop(values, i, missing) ==
  IF i > Len(REQUIRED_ENV_VARS) THEN missing
  ELSE MissingLoop(values, i + 1,
                   IF IsMissing(values[REQUIRED_ENV_VARS[i]])
                   THEN Append(missing, REQUIRED_ENV_VARS[i])
                   ELSE missing)

\* validateEnv()
ValidateEnv(values) ==
  LET missing == MissingLoop(values, 1, <<>>)
  IN  [valid |-> Len(missing) = 0, missing |-> missing]

\* assertEnv(): throws when validateEnv() says not valid, with the names in
\* the message
AssertEnv(values) ==
  LET r == ValidateEnv(values)
  IN  IF ~ r.valid THEN [threw |-> TRUE, names |-> r.missing]
      ELSE [threw |-> FALSE, names |-> <<>>]

NotCalled == [called |-> FALSE]

EnvInit ==
  /\ profiles = {}
  /\ call = [c \in Calls |-> IdleCall]
  /\ callback = NoCallback
  /\ mock = NoMock
  /\ display = NoDisplay
  /\ DbInit(0)
  /\ \E values \in [RequiredNames -> EnvValues] :
       env = [pc |-> "set", values |-> values, validated |-> NotCalled,
              asserted |-> NotCalled]

\* A call of validateEnv()
CallValidateEnv ==
  /\ env.pc = "set"
  /\ env' = [env EXCEPT !.validated = ValidateEnv(env.values) @@ [called |-> TRUE]]
  /\ UNCHANGED <<profiles, call, display, users, callback, mock, dbVars>>

\* A call of assertEnv()
CallAssertEnv ==
  /\ env.pc = "set"
  /\ env' = [env EXCEPT !.asserted = AssertEnv(env.values) @@ [called |-> TRUE]]
  /\ UNCHANGED <<profiles, call, display, users, callback, mock, dbVars>>

EnvNext == CallValidateEnv \/ CallAssertEnv

SpecEnv == EnvInit /\ [][EnvNext]_vars

\* ------------------------------------------------------------------ mock authentication
\* setTimeout(resolve, 1000) and setTimeout(resolve, 500), in units of 500 ms
LoginDelay == 2
LogoutDelay == 1

\* MOCK_USER, and currentUser: MockUser | null
MOCK_USER == "mock-user-1"
NoMockUser == "null"

\* The module is loaded: private static currentUser = null, no call under way
MockLoaded ==
  [pc |-> "loaded", currentUser |-> NoMockUser, now |-> 0, nextCall |-> 1,
   pending |-> {}, resolved |-> <<>>]

MockInit ==
  /\ profiles = {}
  /\ call = [c \in Calls |-> IdleCall]
  /\ callback = NoCallback
  /\ env = NoEnv
  /\ mock = MockLoaded
  /\ display = NoDisplay
  /\ DbInit(0)

\* A call is invoked: it runs up to its await, where a timer is set
Invoked(kind, delay) ==
  [mock EXCEPT
     !.nextCall = @ + 1,
     !.pending = @ \cup {[kind |-> kind, id |-> mock.nextCall, due |-> mock.now + delay]}]

\* login(), up to the await
Login ==
  /\ mock.pc = "loaded"
  /\ mock.nextCall <= MaxMockCalls
  /\ mock' = Invoked("login", LoginDelay)
  /\ UNCHANGED <<profiles, call, display, users, callback, env, dbVars>>

\* logout(), up to the await
Logout ==
  /\ mock.pc = "loaded"
  /\ mock.nextCall <= MaxMockCalls
  /\ mock' = Invoked("logout", LogoutDelay)
  /\ UNCHANGED <<profiles, call, display, users, callback, env, dbVars>>

\* The timers that have run out, and the one the event loop runs next: the
\* earliest one, the one set first among equals
Due == {t \in mock.pending : t.due <= mock.now}

NextTimer ==
  {t \in Due : \A o \in Due : t.due < o.due \/ (t.due = o.due /\ t.id <= o.id)}

\* The timer of a call runs out and the call goes on after its await: login
\* stores MOCK_USER, logout stores null
Resume ==
  /\ mock.pc = "loaded"
  /\ \E t \in NextTimer :
       mock' = [mock EXCEPT
                  !.pending = @ \ {t},
                  !.currentUser = IF t.kind = "login" THEN MOCK_USER ELSE NoMockUser,
                  !.resolved = Append(@, [kind |-> t.kind, id |-> t.id])]
  /\ UNCHANGED <<profiles, call, display, users, callback, env, dbVars>>

\* Time passes, once every timer that has run out has been served
Tick ==
  /\ mock.pc = "loaded"
  /\ Due = {}
  /\ mock.now < MaxTime
  /\ mock' = [mock EXCEPT !.now = @ + 1]
  /\ UNCHANGED <<profiles, call, display, users, callback, env, dbVars>>

\* getCurrentUser() and isAuthenticated()
GetCurrentUser == mock.currentUser
IsAuthenticated == mock.currentUser # NoMockUser

MockNext == Login \/ Logout \/ Resume \/ Tick

SpecMock == MockInit /\ [][MockNext]_vars

\* ------------------------------------------------------------------ schema
\* The response to a request: the operation, how it ended and, for a pipeline
\* operation that reached its audit write, how that write ended
Response(op, result, audit) == [op |-> op, result |-> result, audit |-> audit]

\* Mutant: an update policy "using (true)"
UpdatePolicy_Open(table, uid, row) == table # "audit_log"

\* Mutant: an insert policy "with check (auth.uid() = user_id)" on audit_log
\* as well
InsertPolicy_AuditToo(table, uid, row) == uid = row.user_id

\* Mutant: a delete policy "using (auth.uid() = user_id)" on audit_log as well
DeletePolicy_AuditToo(table, uid, row) == uid = row.user_id

\* Row level security. Every owner-scoped table has the same four policies:
\* select / update / delete using (auth.uid() = user_id), insert with check
\* (auth.uid() = user_id). audit_log has a select policy only, so an
\* authenticated user can insert, update and delete no audit row.
SelectPolicy(table, uid, row) == uid = row.user_id
InsertPolicy(table, uid, row) == table # "audit_log" /\ uid = row.user_id
UpdatePolicy(table, uid, row) == table # "audit_log" /\ uid = row.user_id
DeletePolicy(table, uid, row) == table # "audit_log" /\ uid = row.user_id

\* check (status in ('saved', 'applied', 'interview', 'offer', 'rejected'))
StatusCheck(status) == status \in Statuses

\* jobs.status: text default 'saved' check (status in (...)), without not
\* null. A check constraint is satisfied by a null value.
JobStatusCheck(status) == status = NoStatus \/ status \in Statuses

\* job_id uuid references jobs(id): the referenced job exists. Referential
\* checks are not subject to row level security.
JobExists(jobId) == \E j \in jobs : j.id = jobId

\* Mutant: the table without its unique(user_id, job_id) constraint
ApplicationsUnique_Dropped(row) == TRUE

\* unique(user_id, job_id)
ApplicationsUnique(row) ==
  ~ \E a \in applications : a.user_id = row.user_id /\ a.job_id = row.job_id

\* The error an insert into applications by principal uid ends with, or "none"
ApplicationInsertError(uid, row) ==
  IF ~ InsertPolicy("applications", uid, row) THEN "42501"
  ELSE IF ~ StatusCheck(row.status) THEN "23514"
  ELSE IF ~ JobExists(row.job_id) THEN "23503"
  ELSE IF ~ ApplicationsUnique(row) THEN "23505"
  ELSE "none"

\* Mutant: a new application starts with the status its job has
NewApplication_FromJob(userId, jobId, notes) ==
  [id |-> nextApp, user_id |-> userId, job_id |-> jobId,
   status |-> IF \E j \in jobs : j.id = jobId
              THEN (CHOOSE j \in jobs : j.id = jobId).status
              ELSE DefaultStatus,
   applied_at |-> NoTime, notes |-> notes]

\* A new applications row with the column defaults
NewApplication(userId, jobId, notes) ==
  [id |-> nextApp, user_id |-> userId, job_id |-> jobId, status |-> DefaultStatus,
   applied_at |-> NoTime, notes |-> notes]

JobIds == 1..MaxJobs
AppIds == 1..MaxApps
JobById(id) == {j \in jobs : j.id = id}
AppById(id) == {a \in applications : a.id = id}

\* from('jobs').insert({ title, company, user_id }) by an authenticated user
InsertJob(uid, userId, status) ==
  LET row == [id |-> nextJob, user_id |-> userId, status |-> status]
      err == IF ~ InsertPolicy("jobs", uid, row) THEN "42501"
             ELSE IF ~ JobStatusCheck(status) THEN "23514" ELSE "none"
  IN  /\ err = "none" => nextJob <= MaxJobs
      /\ jobs' = IF err = "none" THEN jobs \cup {row} ELSE jobs
      /\ nextJob' = IF err = "none" THEN nextJob + 1 ELSE nextJob
      /\ last' = Response("jobs.insert", IF err = "none" THEN "ok" ELSE err, "none")
      /\ UNCHANGED <<profiles, sessionVars, applications, artVars, audit_log, nextApp, clock,
                     budget, mutations>>

\* from('applications').insert({ user_id, job_id }) by an authenticated user
InsertApplication(uid, userId, jobId) ==
  LET row == NewApplication(userId, jobId, NoNotes)
      err == ApplicationInsertError(uid, row)
  IN  /\ err = "none" => nextApp <= MaxApps
      /\ applications' = IF err = "none" THEN applications \cup {row} ELSE applications
      /\ nextApp' = IF err = "none" THEN nextApp + 1 ELSE nextApp
      /\ last' = Response("applications.insert", IF err = "none" THEN "ok" ELSE err, "none")
      /\ UNCHANGED <<profiles, sessionVars, jobs, artVars, audit_log, nextJob, clock, budget,
                     mutations>>

\* What a request changed in no table leaves alone
Untouched == <<sessionVars, audit_log, clock, budget, mutations>>

\* from('jobs').update({ status }).eq('id', id) by an authenticated user
UpdateJob(uid, id, status) ==
  LET hit == {j \in JobById(id) : UpdatePolicy("jobs", uid, j)}
      new(j) == [j EXCEPT !.status = status]
      err == IF hit = {} THEN "no rows"
             ELSE IF ~ JobStatusCheck(status) THEN "23514"
             ELSE IF \E j \in hit : ~ UpdatePolicy("jobs", uid, new(j)) THEN "42501"
             ELSE "none"
  IN  /\ jobs # {}
      /\ jobs' = IF err = "none" THEN (jobs \ hit) \cup {new(j) : j \in hit} ELSE jobs
      /\ last' = Response("jobs.update", IF err = "none" THEN "ok" ELSE err, "none")
      /\ UNCHANGED <<profiles, applications, artVars, nextJob, nextApp, Untouched>>

\* Mutant: job_id references jobs(id) without on delete cascade taking effect
JobCascade_None(rows, gone) == rows

\* job_id uuid references jobs(id) on delete cascade: the rows left when the
\* jobs with the ids in gone are deleted
JobCascade(rows, gone) == {r \in rows : r.job_id \notin gone}

\* from('jobs').delete().eq('id', id) by an authenticated user; applications
\* and artifacts referencing the job go with it (on delete cascade)
DeleteJob(uid, id) ==
  LET hit == {j \in JobById(id) : DeletePolicy("jobs", uid, j)}
      gone == {j.id : j \in hit}
  IN  /\ jobs # {}
      /\ jobs' = jobs \ hit
      /\ applications' = JobCascade(applications, gone)
      /\ artifacts' = JobCascade(artifacts, gone)
      /\ last' = Response("jobs.delete", IF hit = {} THEN "no rows" ELSE "ok", "none")
      /\ UNCHANGED <<profiles, approvals, nextJob, nextApp, nextArt, Untouched>>

\* from('applications').update({ status }).eq('id', id) by an authenticated user
UpdateApplication(uid, id, status) ==
  LET hit == {a \in AppById(id) : UpdatePolicy("applications", uid, a)}
      new(a) == [a EXCEPT !.status = status]
      err == IF hit = {} THEN "no rows"
             ELSE IF ~ StatusCheck(status) THEN "23514"
             ELSE IF \E a \in hit : ~ UpdatePolicy("applications", uid, new(a)) THEN "42501"
             ELSE "none"
  IN  /\ applications # {}
      /\ applications' = IF err = "none"
                         THEN (applications \ hit) \cup {new(a) : a \in hit}
                         ELSE applications
      /\ last' = Response("applications.update", IF err = "none" THEN "ok" ELSE err, "none")
      /\ UNCHANGED <<profiles, jobs, artVars, nextJob, nextApp, Untouched>>

\* from('applications').delete().eq('id', id) by an authenticated user
DeleteApplicationRow(uid, id) ==
  LET hit == {a \in AppById(id) : DeletePolicy("applications", uid, a)}
  IN  /\ applications # {}
      /\ applications' = applications \ hit
      /\ last' = Response("applications.delete", IF hit = {} THEN "no rows" ELSE "ok",
                          "none")
      /\ UNCHANGED <<profiles, jobs, artVars, nextJob, nextApp, Untouched>>

\* ------------------------------------------------------------------ artifacts
ArtIds == 1..MaxArts
ArtById(id) == {a \in artifacts : a.id = id}

\* Mutant: the column default of approved is true
DefaultApproved_True == TRUE

\* approved boolean default false not null
DefaultApproved == FALSE

\* The error an insert into artifacts by principal uid ends with, or "none"
ArtifactInsertError(uid, row) ==
  IF ~ InsertPolicy("artifacts", uid, row) THEN "42501"
  ELSE IF row.job_id # NoJob /\ ~ JobExists(row.job_id) THEN "23503"
  ELSE "none"

\* from('artifacts').insert({ user_id, job_id, type, content }) by an
\* authenticated user: approved takes the column default
InsertArtifact(uid, userId, jobId, type) ==
  LET row == [id |-> nextArt, user_id |-> userId, job_id |-> jobId, type |-> type,
              approved |-> DefaultApproved]
      err == ArtifactInsertError(uid, row)
  IN  /\ err = "none" => nextArt <= MaxArts
      /\ artifacts' = IF err = "none" THEN artifacts \cup {row} ELSE artifacts
      /\ nextArt' = IF err = "none" THEN nextArt + 1 ELSE nextArt
      /\ last' = Response("artifacts.insert", IF err = "none" THEN "ok" ELSE err, "none")
      /\ UNCHANGED <<profiles, jobs, applications, approvals, nextJob, nextApp, Untouched>>

\* generateCVForJob(userId, jobId): the generated CV is stored as a draft,
\* approved: false
GenerateCVForJob(userId, jobId) ==
  LET row == [id |-> nextArt, user_id |-> userId, job_id |-> jobId, type |-> "cv",
              approved |-> FALSE]
      err == ArtifactInsertError(userId, row)
  IN  /\ err = "none" => nextArt <= MaxArts
      /\ artifacts' = IF err = "none" THEN artifacts \cup {row} ELSE artifacts
      /\ nextArt' = IF err = "none" THEN nextArt + 1 ELSE nextArt
      /\ last' = Response("generateCVForJob", IF err = "none" THEN "ok" ELSE err, "none")
      /\ UNCHANGED <<profiles, jobs, applications, approvals, nextJob, nextApp, Untouched>>

\* approveArtifact(artifactId): db.artifacts.update(artifactId, { approved: true })
\* in the session of user uid
ApproveArtifact(uid, artifactId) ==
  LET hit == {a \in ArtById(artifactId) : UpdatePolicy("artifacts", uid, a)}
  IN  /\ artifacts # {}
      /\ artifacts' = (artifacts \ hit) \cup {[a EXCEPT !.approved = TRUE] : a \in hit}
      /\ approvals' = approvals \cup {a.id : a \in hit}
      /\ last' = Response("approveArtifact", IF hit = {} THEN "no rows" ELSE "ok", "none")
      /\ UNCHANGED <<profiles, jobs, applications, nextJob, nextApp, nextArt, Untouched>>

\* from('artifacts').delete().eq('id', id) by an authenticated user
DeleteArtifact(uid, id) ==
  LET hit == {a \in ArtById(id) : DeletePolicy("artifacts", uid, a)}
  IN  /\ artifacts # {}
      /\ artifacts' = artifacts \ hit
      /\ last' = Response("artifacts.delete", IF hit = {} THEN "no rows" ELSE "ok", "none")
      /\ UNCHANGED <<profiles, jobs, applications, approvals, nextJob, nextApp, nextArt,
                     Untouched>>

\* ------------------------------------------------------------------ profiles, row level
\* The insert of getOrCreateProfile, in the session of user uid, for the key
\* userId
InsertProfile(uid, userId) ==
  LET row == NewProfile(userId)
      err == IF ~ InsertPolicy("profiles", uid, row) THEN "42501"
             ELSE IF ProfileKeyTaken(userId) THEN "23505" ELSE "none"
  IN  /\ profiles' = IF err = "none" THEN profiles \cup {row} ELSE profiles
      /\ last' = Response("profiles.insert", IF err = "none" THEN "ok" ELSE err, "none")
      /\ UNCHANGED <<jobs, applications, artVars, nextJob, nextApp, Untouched>>

\* seniority_level text check (seniority_level in (...)), nullable
SeniorityCheck(v) ==
  v \in {NoSeniority, "junior", "mid", "senior", "lead", "principal"}

\* from('profiles').update({ ... }).eq('id', userId) in the session of user uid
UpdateProfile(uid, userId, seniority) ==
  LET hit == {p \in ProfileById(userId) : UpdatePolicy("profiles", uid, p)}
      err == IF hit = {} THEN "no rows"
             ELSE IF ~ SeniorityCheck(seniority) THEN "23514" ELSE "none"
  IN  /\ profiles # {}
      /\ profiles' = IF err = "none"
                     THEN (profiles \ hit) \cup {[p EXCEPT !.seniority_level = seniority] :
                                                   p \in hit}
                     ELSE profiles
      /\ last' = Response("profiles.update", IF err = "none" THEN "ok" ELSE err, "none")
      /\ UNCHANGED <<jobs, applications, artVars, nextJob, nextApp, Untouched>>

\* from('profiles').delete().eq('id', userId) in the session of user uid
DeleteProfile(uid, userId) ==
  LET hit == {p \in ProfileById(userId) : DeletePolicy("profiles", uid, p)}
  IN  /\ profiles # {}
      /\ profiles' = profiles \ hit
      /\ last' = Response("profiles.delete", IF hit = {} THEN "no rows" ELSE "ok", "none")
      /\ UNCHANGED <<jobs, applications, artVars, nextJob, nextApp, Untouched>>

\* from(table).select(): the rows the select policy shows to user uid
Select(table, rows, uid) == {r \in rows : SelectPolicy(table, uid, r)}

\* The payloads the row-level requests are tried with
JobUpdates == {"applied"}
ApplicationUpdates == {"rejected"}
ProfileUpdates == {"senior"}

Init ==
  /\ profiles = {}
  /\ call = [c \in Calls |-> IdleCall]
  /\ WebIdle
  /\ display = NoDisplay
  /\ DbInit(0)

Next ==
  \/ \E uid \in Users, userId \in Users : InsertJob(uid, userId, DefaultStatus)
  \/ \E uid \in Users, id \in JobIds, st \in JobUpdates : UpdateJob(uid, id, st)
  \/ \E uid \in Users, id \in JobIds : DeleteJob(uid, id)
  \/ \E uid \in Users, userId \in Users, jobId \in JobIds :
       InsertApplication(uid, userId, jobId)
  \/ \E uid \in Users, id \in AppIds, st \in ApplicationUpdates :
       UpdateApplication(uid, id, st)
  \/ \E uid \in Users, id \in AppIds : DeleteApplicationRow(uid, id)
  \/ \E uid \in Users, userId \in Users :
       nextArt <= MaxIsoArts /\ InsertArtifact(uid, userId, NoJob, "message")
  \/ \E userId \in Users, jobId \in JobIds :
       nextArt <= MaxIsoArts /\ GenerateCVForJob(userId, jobId)
  \/ \E uid \in Users, id \in ArtIds : ApproveArtifact(uid, id)
  \/ \E uid \in Users, id \in ArtIds : DeleteArtifact(uid, id)
  \/ \E uid \in Users, userId \in Users : InsertProfile(uid, userId)
  \/ \E uid \in Users, userId \in Users, v \in ProfileUpdates :
       UpdateProfile(uid, userId, v)
  \/ \E uid \in Users, userId \in Users : DeleteProfile(uid, userId)

Spec == Init /\ [][Next]_vars

ArtifactNext ==
  \/ \E uid \in Users : InsertJob(uid, uid, DefaultStatus)
  \/ \E uid \in Users, id \in JobIds : DeleteJob(uid, id)
  \/ \E uid \in Users, userId \in Users, jobId \in JobIds \cup {NoJob} :
       InsertArtifact(uid, userId, jobId, "message")
  \/ \E userId \in Users, jobId \in JobIds : GenerateCVForJob(userId, jobId)
  \/ \E uid \in Users, id \in ArtIds : ApproveArtifact(uid, id)
  \/ \E uid \in Users, id \in ArtIds : DeleteArtifact(uid, id)

SpecArtifact == Init /\ [][ArtifactNext]_vars

\* ------------------------------------------------------------------ ownership
\* Mutant: update policies "with check (true)"
UpdateCheck_True(table, uid, row) == TRUE

\* An update policy that has a using clause only checks the new row with the
\* same expression (the templates spell it out: with check (auth.uid() =
\* user_id))
UpdateCheck(table, uid, row) == UpdatePolicy(table, uid, row)

\* What an update of user_id to newOwner answers, for the rows hit (the rows
\* of the id that the using clause lets the user see)
OwnerUpdateError(table, uid, hit, newOwner) ==
  IF hit = {} THEN "no rows"
  ELSE IF \E r \in hit : ~ UpdateCheck(table, uid, [r EXCEPT !.user_id = newOwner])
  THEN "42501"
  ELSE IF newOwner \notin users THEN "23503"
  ELSE "none"

\* The rows after an update of user_id
OwnerUpdated(rows, hit, newOwner, err) ==
  IF err = "none"
  THEN (rows \ hit) \cup {[r EXCEPT !.user_id = newOwner] : r \in hit}
  ELSE rows

OwnerResponse(op, err) == Response(op, IF err = "none" THEN "ok" ELSE err, "none")

\* from('jobs').update({ user_id: newOwner }).eq('id', id) in the session of uid
SetJobOwner(uid, id, newOwner) ==
  LET hit == {j \in JobById(id) : UpdatePolicy("jobs", uid, j)}
      err == OwnerUpdateError("jobs", uid, hit, newOwner)
  IN  /\ jobs # {}
      /\ jobs' = OwnerUpdated(jobs, hit, newOwner, err)
      /\ last' = OwnerResponse("jobs.setOwner", err)
      /\ UNCHANGED <<profiles, applications, artVars, nextJob, nextApp, Untouched>>

\* from('applications').update({ user_id: newOwner }).eq('id', id)
SetApplicationOwner(uid, id, newOwner) ==
  LET hit == {a \in AppById(id) : UpdatePolicy("applications", uid, a)}
      err == OwnerUpdateError("applications", uid, hit, newOwner)
  IN  /\ applications # {}
      /\ applications' = OwnerUpdated(applications, hit, newOwner, err)
      /\ last' = OwnerResponse("applications.setOwner", err)
      /\ UNCHANGED <<profiles, jobs, artVars, nextJob, nextApp, Untouched>>

\* from('artifacts').update({ user_id: newOwner }).eq('id', id)
SetArtifactOwner(uid, id, newOwner) ==
  LET hit == {a \in ArtById(id) : UpdatePolicy("artifacts", uid, a)}
      err == OwnerUpdateError("artifacts", uid, hit, newOwner)
  IN  /\ artifacts # {}
      /\ artifacts' = OwnerUpdated(artifacts, hit, newOwner, err)
      /\ last' = OwnerResponse("artifacts.setOwner", err)
      /\ UNCHANGED <<profiles, jobs, applications, approvals, nextJob, nextApp, nextArt,
                     Untouched>>

\* from('profiles').update({ user_id: newOwner }).eq('id', userId)
SetProfileOwner(uid, userId, newOwner) ==
  LET hit == {p \in ProfileById(userId) : UpdatePolicy("profiles", uid, p)}
      err == OwnerUpdateError("profiles", uid, hit, newOwner)
  IN  /\ profiles # {}
      /\ profiles' = OwnerUpdated(profiles, hit, newOwner, err)
      /\ last' = OwnerResponse("profiles.setOwner", err)
      /\ UNCHANGED <<jobs, applications, artVars, nextJob, nextApp, Untouched>>

OwnerNext ==
  \/ \E uid \in Users, userId \in Users : InsertJob(uid, userId, DefaultStatus)
  \/ \E uid \in Users, userId \in Users, jobId \in JobIds :
       InsertApplication(uid, userId, jobId)
  \/ \E uid \in Users, userId \in Users :
       nextArt <= MaxIsoArts /\ InsertArtifact(uid, userId, NoJob, "message")
  \/ \E uid \in Users, userId \in Users : InsertProfile(uid, userId)
  \/ \E uid \in Users, id \in JobIds, st \in JobUpdates : UpdateJob(uid, id, st)
  \/ \E uid \in Users, id \in AppIds, st \in ApplicationUpdates :
       UpdateApplication(uid, id, st)
  \/ \E uid \in Users, id \in JobIds, newOwner \in Users : SetJobOwner(uid, id, newOwner)
  \/ \E uid \in Users, id \in JobIds, newOwner \in Users : SetJobOwner(uid, id, newOwner)
  \/ \E uid \in Users, id \in AppIds, newOwner \in Users :
       SetApplicationOwner(uid, id, newOwner)
  \/ \E uid \in Users, id \in ArtIds, newOwner \in Users :
       SetArtifactOwner(uid, id, newOwner)
  \/ \E uid \in Users, userId \in Users, newOwner \in Users :
       SetProfileOwner(uid, userId, newOwner)

SpecOwner == Init /\ [][OwnerNext]_vars

\* ------------------------------------------------------------------ audit trail
\* What the insert of logAction can end with: the row is stored; the client
\* resolves with { error } (the way every storage call of the repository
\* reports a failure); or the call throws (no admin client).
AuditOutcomes == {"ok", "error", "throw"}

AuditEntry(userId, action, resource, resourceId, metadata) ==
  [user_id |-> userId, action |-> action, resource |-> resource,
   resource_id |-> resourceId, metadata |-> metadata]

\* logAction: await admin.from('audit_log').insert({...}); the resolved value
\* is not looked at
LogAction(log, entry, outcome) == IF outcome = "ok" THEN Append(log, entry) ELSE log

\* logAction ends with an exception only when the awaited call itself throws
LogActionThrows(outcome) == outcome = "throw"

\* The audit rows from index i on, without those at the indices in drop
RECURSIVE KeepRows(_, _, _)
KeepRows(log, i, drop) ==
  IF i > Len(log) THEN <<>>
  ELSE (IF i \in drop THEN <<>> ELSE <<log[i]>>) \o KeepRows(log, i + 1, drop)

\* from('audit_log').delete().eq('id', ...) by an authenticated user: the rows
\* the delete policies let the user touch are removed
DeleteAuditLog(uid, i) ==
  LET hit == {k \in {i} \cap (1..Len(audit_log)) :
                DeletePolicy("audit_log", uid, audit_log[k])}
  IN  /\ audit_log # <<>>
      /\ audit_log' = KeepRows(audit_log, 1, hit)
      /\ last' = Response("audit_log.delete", IF hit = {} THEN "no rows" ELSE "ok", "none")
      /\ UNCHANGED <<profiles, sessionVars, jobs, applications, artVars, nextJob, nextApp, clock,
                     budget, mutations>>

\* from('audit_log').update({ action }).eq('id', ...) by an authenticated user
UpdateAuditLog(uid, i, action) ==
  LET hit == {k \in {i} \cap (1..Len(audit_log)) :
                UpdatePolicy("audit_log", uid, audit_log[k])}
  IN  /\ audit_log # <<>>
      /\ audit_log' = [k \in 1..Len(audit_log) |->
                         IF k \in hit THEN [audit_log[k] EXCEPT !.action = action]
                         ELSE audit_log[k]]
      /\ last' = Response("audit_log.update", IF hit = {} THEN "no rows" ELSE "ok", "none")
      /\ UNCHANGED <<profiles, sessionVars, jobs, applications, artVars, nextJob, nextApp, clock,
                     budget, mutations>>

\* from('audit_log').insert({ user_id, action, resource }) by an authenticated
\* user (not the service role)
InsertAuditLog(uid, userId) ==
  LET row == AuditEntry(userId, "forged", "application", NoJob, <<>>)
      ok  == InsertPolicy("audit_log", uid, row)
  IN  /\ ok => Len(audit_log) < MaxOps
      /\ audit_log' = IF ok THEN Append(audit_log, row) ELSE audit_log
      /\ last' = Response("audit_log.insert", IF ok THEN "ok" ELSE "42501", "none")
      /\ UNCHANGED <<profiles, sessionVars, jobs, applications, artVars, nextJob, nextApp, clock,
                     budget, mutations>>

\* The rows of audit_log, as a set
AuditRows == {audit_log[i] : i \in 1..Len(audit_log)}

\* ------------------------------------------------------------------ user deletion
\* Mutant: user_id references auth.users(id) without on delete cascade taking
\* effect
UserCascade_None(rows, u) == rows

\* user_id uuid references auth.users(id) on delete cascade: the rows left when
\* user u is deleted
UserCascade(rows, u) == {r \in rows : r.user_id # u}

\* audit_log.user_id references auth.users(id) on delete set null
UserSetNull(log, u) ==
  [i \in 1..Len(log) |->
     IF log[i].user_id = u THEN [log[i] EXCEPT !.user_id = NoUser] ELSE log[i]]

\* The row of user u is deleted from auth.users
DeleteUser(u) ==
  LET gone == {j.id : j \in {x \in jobs : x.user_id = u}}
  IN  /\ u \in users
      /\ users' = users \ {u}
      /\ profiles' = UserCascade(profiles, u)
      /\ jobs' = UserCascade(jobs, u)
      /\ applications' = JobCascade(UserCascade(applications, u), gone)
      /\ artifacts' = JobCascade(UserCascade(artifacts, u), gone)
      /\ audit_log' = UserSetNull(audit_log, u)
      /\ last' = Response("auth.users.delete", "ok", "none")
      /\ UNCHANGED <<call, display, webVars, approvals, nextJob, nextApp, nextArt, clock, budget,
                     mutations>>

\* ------------------------------------------------------------------ pipeline service
Notes == {NoNotes, "n1"}

\* The outcome of a mutating operation whose primary write has committed
Audited(outcome) == IF LogActionThrows(outcome) THEN "AuditWriteFailed" ELSE "ok"

\* Mutant: the audit entry is written first, whatever becomes of the primary
\* write
Finish_AuditFirst(op, pre, entry, outcome) ==
  LET res == IF pre # "none" THEN pre ELSE Audited(outcome)
  IN  /\ budget > 0
      /\ audit_log' = LogAction(audit_log, entry, outcome)
      /\ budget' = budget - 1
      /\ mutations' = IF res = "ok" THEN mutations + 1 ELSE mutations
      /\ last' = Response(op, res, outcome)

\* The shared tail of the three mutating operations: the primary write has
\* committed (or the precondition pre failed), then the audit entry is written
Finish(op, pre, entry, outcome) ==
  LET res == IF pre # "none" THEN pre ELSE Audited(outcome)
  IN  /\ pre = "none" => budget > 0
      /\ audit_log' = IF pre = "none" THEN LogAction(audit_log, entry, outcome)
                      ELSE audit_log
      /\ budget' = IF pre = "none" THEN budget - 1 ELSE budget
      /\ mutations' = IF res = "ok" THEN mutations + 1 ELSE mutations
      /\ last' = Response(op, res, IF pre = "none" THEN outcome ELSE "none")

\* createApplication(userId, jobId, initialNotes?)
CreateApplication(userId, jobId, notes, outcome) ==
    LET row == NewApplication(userId, jobId, notes)
        err == ApplicationInsertError(userId, row)
        pre == IF JobById(jobId) = {} THEN "NotFound"
               ELSE IF \E j \in JobById(jobId) : j.user_id # userId THEN "Forbidden"
               ELSE IF err = "23505" THEN "DuplicateApplication"
               ELSE IF err # "none" THEN "Forbidden"
               ELSE "none"
    IN  /\ pre = "none" => nextApp <= MaxApps
        /\ applications' = IF pre = "none" THEN applications \cup {row} ELSE applications
        /\ nextApp' = IF pre = "none" THEN nextApp + 1 ELSE nextApp
        /\ Finish("createApplication", pre,
                  AuditEntry(userId, "create", "application", row.id, <<>>), outcome)
        /\ UNCHANGED <<profiles, sessionVars, jobs, artVars, nextJob, clock>>

\* Mutant: every entry into "applied" stamps the current time
AppliedAt_Restamp(a, newStatus, now) ==
  IF newStatus = "applied" THEN now ELSE a.applied_at

\* applied_at after a transition of application a to newStatus at time now:
\* stamped on the first entry into "applied", kept otherwise
AppliedAt(a, newStatus, now) ==
  IF newStatus = "applied" /\ a.applied_at = NoTime THEN now ELSE a.applied_at

\* Mutant: a forward-only pipeline, nothing follows "offer" or "rejected"
TransitionAllowed_ForwardOnly(old, new) == old \notin {"offer", "rejected"}

\* The statuses that may follow a status: any (the status column carries its
\* check constraint only, and the operation adds no guard of its own)
TransitionAllowed(old, new) == TRUE

\* Mutant: the status of the linked job mirrors the application's
JobsAfter_Mirror(found, newStatus) ==
  {IF \E a \in found : a.job_id = j.id THEN [j EXCEPT !.status = newStatus] ELSE j :
     j \in jobs}

\* Table jobs after an updateStatus of the applications found: as it was
JobsAfter(found, newStatus) == jobs

\* updateStatus(userId, applicationId, newStatus)
UpdateStatus(userId, applicationId, newStatus, outcome) ==
    LET found == AppById(applicationId)
        pre == IF found = {} THEN "NotFound"
               ELSE IF \E a \in found : a.user_id # userId THEN "Forbidden"
               ELSE IF ~ StatusCheck(newStatus) THEN "ValidationError"
               ELSE IF \E a \in found : ~ TransitionAllowed(a.status, newStatus)
                    THEN "ValidationError"
               ELSE "none"
        upd(a) == [a EXCEPT !.status = newStatus,
                            !.applied_at = AppliedAt(a, newStatus, clock)]
        old == IF found = {} THEN "none" ELSE (CHOOSE a \in found : TRUE).status
    IN  /\ applications' = IF pre = "none"
                           THEN (applications \ found) \cup {upd(a) : a \in found}
                           ELSE applications
        /\ clock' = IF pre = "none" /\ newStatus = "applied" THEN clock + 1 ELSE clock
        /\ Finish("updateStatus", pre,
                  AuditEntry(userId, "update", "application", applicationId,
                             <<old, newStatus>>), outcome)
        /\ jobs' = IF pre = "none" THEN JobsAfter(found, newStatus) ELSE jobs
        /\ UNCHANGED <<profiles, sessionVars, artVars, nextJob, nextApp>>

\* deleteApplication(userId, applicationId): the audit entry is written before
\* the row is deleted, so a logAction that throws leaves the row in place
DeleteApplication(userId, applicationId, outcome) ==
    LET found == AppById(applicationId)
        pre == IF found = {} THEN "NotFound"
               ELSE IF \E a \in found : a.user_id # userId THEN "Forbidden"
               ELSE "none"
    IN  /\ applications' = IF pre = "none" /\ ~ LogActionThrows(outcome)
                           THEN applications \ found
                           ELSE applications
        /\ Finish("deleteApplication", pre,
                  AuditEntry(userId, "delete", "application", applicationId, <<>>), outcome)
        /\ UNCHANGED <<profiles, sessionVars, jobs, artVars, nextJob, nextApp, clock>>

StatusInputs == Statuses \cup {"bogus"}

PipelineInit ==
  /\ profiles = {}
  /\ call = [c \in Calls |-> IdleCall]
  /\ WebIdle
  /\ display = NoDisplay
  /\ DbInit(MaxOps)

PipelineNext ==
  \/ \E uid \in Users, userId \in Users : InsertJob(uid, userId, DefaultStatus)
  \/ \E uid \in Users, userId \in Users, jobId \in JobIds :
       InsertApplication(uid, userId, jobId)
  \/ \E userId \in Users, jobId \in JobIds, notes \in Notes, outcome \in AuditOutcomes :
       CreateApplication(userId, jobId, notes, outcome)
  \/ \E userId \in Users, id \in AppIds, st \in StatusInputs, outcome \in AuditOutcomes :
       UpdateStatus(userId, id, st, outcome)
  \/ \E userId \in Users, id \in AppIds, outcome \in AuditOutcomes :
       DeleteApplication(userId, id, outcome)
  \/ \E uid \in Users, i \in 1..MaxOps : DeleteAuditLog(uid, i)
  \/ \E uid \in Users, i \in 1..MaxOps : UpdateAuditLog(uid, i, "forged")
  \/ \E uid \in Users, userId \in Users : InsertAuditLog(uid, userId)

SpecPipeline == PipelineInit /\ [][PipelineNext]_vars

StatusInit ==
  /\ profiles = {}
  /\ call = [c \in Calls |-> IdleCall]
  /\ WebIdle
  /\ display = NoDisplay
  /\ DbInit(MaxUpdates)

StatusNext ==
  \/ \E uid \in Users : InsertJob(uid, uid, DefaultStatus)
  \/ \E uid \in Users, jobId \in JobIds : InsertApplication(uid, uid, jobId)
  \/ \E userId \in Users, id \in AppIds, st \in StatusInputs :
       UpdateStatus(userId, id, st, "ok")

SpecStatus == StatusInit /\ [][StatusNext]_vars

\* The status values a request on jobs is tried with: the enum, null, and a
\* value outside the enum
JobStatusInputs == Statuses \cup {NoStatus, "bogus"}

\* The status values a direct update of applications is tried with
RawStatusInputs == {"offer", NoStatus, "bogus"}

EnumNext ==
  \/ \E uid \in Users, st \in JobStatusInputs : InsertJob(uid, uid, st)
  \/ \E uid \in Users, id \in JobIds, st \in JobStatusInputs : UpdateJob(uid, id, st)
  \/ \E userId \in Users, jobId \in JobIds, notes \in Notes :
       CreateApplication(userId, jobId, notes, "ok")
  \/ \E uid \in Users, id \in AppIds, st \in RawStatusInputs :
       UpdateApplication(uid, id, st)
  \/ \E userId \in Users, id \in AppIds, st \in StatusInputs :
       UpdateStatus(userId, id, st, "ok")

SpecEnum == PipelineInit /\ [][EnumNext]_vars

\* Requests of the users that exist, and deletions of users
CascadeNext ==
  \/ \E uid \in users : InsertJob(uid, uid, DefaultStatus)
  \/ \E uid \in users, id \in JobIds : DeleteJob(uid, id)
  \/ \E uid \in users, jobId \in JobIds : InsertApplication(uid, uid, jobId)
  \/ \E uid \in users, jobId \in JobIds : CreateApplication(uid, jobId, NoNotes, "ok")
  \/ \E uid \in users : InsertProfile(uid, uid)
  \/ \E uid \in users :
       nextArt <= MaxIsoArts /\ InsertArtifact(uid, uid, NoJob, "message")
  \/ \E uid \in users, jobId \in JobIds :
       nextArt <= MaxIsoArts /\ GenerateCVForJob(uid, jobId)
  \/ \E u \in Users : DeleteUser(u)

SpecCascade == PipelineInit /\ [][CascadeNext]_vars

FrameNext ==
  \/ \E uid \in Users, st \in {"offer"} : InsertJob(uid, uid, st)
  \/ \E uid \in Users, userId \in Users, jobId \in JobIds :
       InsertApplication(uid, userId, jobId)
  \/ \E uid \in Users : InsertProfile(uid, uid)
  \/ \E userId \in Users, jobId \in JobIds :
       nextArt <= MaxIsoArts /\ GenerateCVForJob(userId, jobId)
  \/ \E userId \in Users, id \in AppIds, st \in StatusInputs :
       UpdateStatus(userId, id, st, "ok")

SpecFrame == PipelineInit /\ [][FrameNext]_vars

\* ------------------------------------------------------------------ claims: provisioning
\* An invocation that met no storage outage
NoOutage(c) == call[c].fetchError # "storage" /\ call[c].error # "storage"

\* C1: after any number of ensureProfile / getOrCreateProfile invocations for a
\* user U, sequential or interleaved, exactly one Profile row exists for U and
\* every finished invocation returned that row (the first one created it, the
\* later ones return it unmodified).
C1_ProfileIdempotence ==
  \A c \in Calls :
    (call[c].pc = "done" /\ call[c].user # NoUser /\ NoOutage(c))
      => /\ Cardinality(ProfileById(call[c].user)) = 1
         /\ call[c].data = ProfileById(call[c].user)
         /\ call[c].result = "success"

\* C2: an invocation that saw no existing Profile and whose insert hit the
\* uniqueness violation returns the Profile the other invocation created, not
\* an error.
C2_RaceLoserReturnsProfile ==
  \A c \in Calls :
    (call[c].pc = "done" /\ call[c].fetchError = "PGRST116" /\ call[c].error = "23505")
      => /\ call[c].result = "success"
         /\ call[c].data = ProfileById(call[c].user)

\* ------------------------------------------------------------------ claims: pipeline
AtMostOnePerPair ==
  \A a, b \in applications :
    (a.user_id = b.user_id /\ a.job_id = b.job_id) => a.id = b.id

OwnsJob(userId, jobId) == \E j \in jobs : j.id = jobId /\ j.user_id = userId
HasApplication(userId, jobId) ==
  \E a \in applications : a.user_id = userId /\ a.job_id = jobId

\* C3: in every reachable state at most one Application row exists per
\* (owning user, job) pair, and createApplication(U, J) for a pair that already
\* has its Application fails with DuplicateApplication and adds no row.
C3_ApplicationUniqueness ==
  /\ []AtMostOnePerPair
  /\ [][\A u \in Users, j \in JobIds, n \in Notes, o \in AuditOutcomes :
          (/\ last'.op = "createApplication"
           /\ OwnsJob(u, j) /\ HasApplication(u, j)
           /\ CreateApplication(u, j, n, o))
            => /\ last'.result = "DuplicateApplication"
               /\ applications' = applications
               /\ audit_log' = audit_log]_vars

\* C3 witness: a createApplication was refused as a duplicate while the pair's
\* Application exists
C3_Witness ==
  /\ last.op = "createApplication"
  /\ last.result = "DuplicateApplication"
  /\ \E a \in applications : OwnsJob(a.user_id, a.job_id)

\* C4: applied_at is stamped exactly once: an updateStatus to "applied" of an
\* Application whose applied_at is null sets it to a non-null timestamp, no
\* updateStatus call, to whatever status, changes an applied_at that is set,
\* and applied_at becomes set only on entry into "applied".
C4_AppliedAtStampedOnce ==
  [][last'.op = "updateStatus"
       => /\ \A a \in applications : \A b \in applications' :
               a.id = b.id
                 => /\ a.applied_at # NoTime => b.applied_at = a.applied_at
                    /\ (a.applied_at = NoTime /\ b.applied_at # NoTime)
                         => b.status = "applied"
          /\ \A a \in applications : \A o \in AuditOutcomes :
               (a.applied_at = NoTime /\ UpdateStatus(a.user_id, a.id, "applied", o))
                 => \A b \in applications' : b.id = a.id => b.applied_at # NoTime]_vars

\* C4 witness: an Application stamped on its first entry into "applied" has left
\* "applied" and come back, and time has moved on since the stamp
C4_Witness ==
  \E a \in applications :
    /\ a.status = "applied"
    /\ a.applied_at # NoTime
    /\ a.applied_at + 1 < clock
    /\ \E i, k \in 1..Len(audit_log) :
         /\ i < k
         /\ audit_log[i].resource_id = a.id /\ audit_log[k].resource_id = a.id
         /\ audit_log[i].metadata = <<"applied", "interview">>
         /\ audit_log[k].metadata = <<"interview", "applied">>

ApplicationAudits == SelectSeq(audit_log, LAMBDA e : e.resource = "application")

\* C6: every successful createApplication, updateStatus and deleteApplication
\* appends exactly one audit entry for resource "application", so the number of
\* application audit entries equals the number of successful mutations.
C6_AuditCompleteness == Len(ApplicationAudits) = mutations

\* C7: when the audit append of a mutating operation fails, the operation
\* reports AuditWriteFailed, also when its primary write has committed.
C7_AuditFailurePropagates ==
  last.audit \in {"error", "throw"} => last.result = "AuditWriteFailed"

\* C9: the owning user of every Application is the owning user of the Job it
\* references (an Application for another user's Job is never created).
C9_ApplicationOwnerIsJobOwner ==
  \A a \in applications : \A j \in jobs :
    j.id = a.job_id => j.user_id = a.user_id

\* C10: the audit log is append-only: across every step each entry already
\* written stays at its place with its action, resource, resource identifier
\* and metadata unchanged.
C10_AuditAppendOnly ==
  [][\A i \in 1..Len(audit_log) :
       /\ i <= Len(audit_log')
       /\ audit_log'[i].action = audit_log[i].action
       /\ audit_log'[i].resource = audit_log[i].resource
       /\ audit_log'[i].resource_id = audit_log[i].resource_id
       /\ audit_log'[i].metadata = audit_log[i].metadata]_vars

\* C10 witness: with entries written, a user's delete of an audit row of their
\* own matched no row
C10_Witness ==
  /\ last.op = "audit_log.delete"
  /\ last.result = "no rows"
  /\ \E i \in 1..Len(audit_log) : audit_log[i].user_id \in Users

\* ------------------------------------------------------------------ claims: isolation
\* The rows of a table that user uid does not own
Foreign(rows, uid) == {r \in rows : r.user_id # uid}

\* What no user other than the owner is shown
ReadsOwnOnly ==
  \A uid \in Users :
    /\ \A r \in Select("jobs", jobs, uid) : r.user_id = uid
    /\ \A r \in Select("applications", applications, uid) : r.user_id = uid
    /\ \A r \in Select("artifacts", artifacts, uid) : r.user_id = uid
    /\ \A r \in Select("profiles", profiles, uid) : r.user_id = uid

ServiceOps == {"createApplication", "updateStatus", "deleteApplication"}

\* C11: a user is shown only the audit entries whose acting user is that user;
\* an insert, update or delete of an audit entry requested by a user changes
\* nothing; the audit log changes only through the service-role logAction of a
\* pipeline operation.
C11_AuditAccess ==
  /\ [](\A uid \in Users :
          \A r \in Select("audit_log", AuditRows, uid) : r.user_id = uid)
  /\ [][/\ last'.op \in {"audit_log.insert", "audit_log.update", "audit_log.delete"}
             => (audit_log' = audit_log /\ last'.result \in {"42501", "no rows"})
        /\ audit_log' # audit_log => last'.op \in ServiceOps]_vars

\* C11 witness: the log holds an entry of one user, the other user is shown
\* nothing, and an insert into audit_log requested by a user was refused
C11_Witness ==
  /\ audit_log # <<>>
  /\ \E uid \in Users : Select("audit_log", AuditRows, uid) = {}
  /\ last.op = "audit_log.insert"
  /\ last.result = "42501"

\* ------------------------------------------------------------------ claims: create, enum
\* C12: a successful createApplication(userId, jobId, notes) adds exactly one
\* Application, owned by userId, for jobId, with status "saved", applied_at null
\* and the given notes, whatever the status of the Job.
C12_CreatedApplication ==
  [][\A u \in Users, j \in JobIds, n \in Notes :
       (/\ last'.op = "createApplication"
        /\ last'.result = "ok"
        /\ CreateApplication(u, j, n, "ok"))
         => \E a \in applications' :
              /\ applications' = applications \cup {a}
              /\ a \notin applications
              /\ a.user_id = u /\ a.job_id = j /\ a.notes = n
              /\ a.status = "saved" /\ a.applied_at = NoTime]_vars

\* C12 witness: an Application was created with notes for a Job whose status
\* is not "saved"
C12_Witness ==
  /\ last.op = "createApplication"
  /\ last.result = "ok"
  /\ \E a \in applications : \E j \in jobs :
       /\ a.job_id = j.id /\ j.status = "rejected"
       /\ a.status = "saved" /\ a.applied_at = NoTime /\ a.notes = "n1"

\* An updateStatus by the owner with a status outside the enum ends with
\* ValidationError and changes neither the applications nor the audit log
ValidationRejected ==
  [][\A a \in applications : \A st \in StatusInputs \ Statuses :
       (last'.op = "updateStatus" /\ UpdateStatus(a.user_id, a.id, st, "ok"))
         => /\ last'.result = "ValidationError"
            /\ applications' = applications
            /\ audit_log' = audit_log]_vars

ApplicationStatusInEnum == \A a \in applications : a.status \in Statuses
JobStatusInEnum == \A j \in jobs : j.status \in Statuses

\* C13: updateStatus with a status outside the five enum values fails with
\* ValidationError and leaves the Application and the audit log unchanged, and
\* in every reachable state the status of every Application and of every Job
\* is one of the five enum values.
C13_StatusEnum ==
  /\ ValidationRejected
  /\ []ApplicationStatusInEnum
  /\ []JobStatusInEnum

\* ------------------------------------------------------------------ claims: transitions
\* C14: status transitions are unconstrained: for every Application, whatever
\* its status s (terminal or not), and every status t (t = s included), an
\* updateStatus to t by the owner can be made, succeeds and leaves the
\* Application with status t.
C14_TransitionsUnconstrained ==
  /\ [](\A a \in applications : \A t \in Statuses :
          budget > 0 => ENABLED UpdateStatus(a.user_id, a.id, t, "ok"))
  /\ [][\A a \in applications : \A t \in Statuses :
          (last'.op = "updateStatus" /\ UpdateStatus(a.user_id, a.id, t, "ok"))
            => /\ last'.result = "ok"
               /\ \E b \in applications' : b.id = a.id /\ b.status = t]_vars

\* C14 witness: one Application went saved -> rejected -> rejected -> applied
C14_Witness ==
  \E a \in applications :
    /\ a.status = "applied"
    /\ Len(audit_log) = 3
    /\ \A i \in 1..3 : audit_log[i].resource_id = a.id
    /\ audit_log[1].metadata = <<"saved", "rejected">>
    /\ audit_log[2].metadata = <<"rejected", "rejected">>
    /\ audit_log[3].metadata = <<"rejected", "applied">>

ShortCircuitWhenFound ==
  [][\A c \in Calls :
       (/\ call[c].pc = "select"
        /\ call'[c].pc # "select"
        /\ call'[c].fetchError # "storage"
        /\ ProfileById(call[c].user) # {})
         => /\ call'[c].pc = "done"
            /\ call'[c].data = ProfileById(call[c].user)
            /\ call'[c].result = "success"
            /\ call'[c].inserts = 0
            /\ profiles' = profiles
            /\ audit_log' = audit_log]_vars

\* A finished invocation that found no Profile made exactly one insert, and no
\* invocation writes the audit log
OneInsertOnMissing ==
  /\ audit_log = <<>>
  /\ \A c \in Calls :
       (call[c].pc = "done" /\ call[c].fetchError = "PGRST116") => call[c].inserts = 1

FailedInsertLeavesNoRow ==
  [][\A c \in Calls :
       (call[c].pc = "insert" /\ call'[c].pc = "done" /\ call'[c].error # "none")
         => profiles' = profiles]_vars

\* No invocation inserts more than once
NoRetry == \A c \in Calls : call[c].inserts <= 1

\* What the caller of ensureProfile gets when the insert failed: the failure,
\* with the storage error that caused it
CauseSurfaced ==
  \A c \in Calls :
    (call[c].pc = "done" /\ call[c].error # "none")
      => /\ call[c].result = "Failed to create profile"
         /\ call[c].cause = call[c].error

\* C18: when the insert of a new Profile fails, ensureProfile reports the
\* failure to its caller together with the underlying storage error, no Profile
\* row is left behind, and the insert is not retried.
C18_ProvisioningFailed ==
  /\ FailedInsertLeavesNoRow
  /\ []NoRetry
  /\ []CauseSurfaced

\* ------------------------------------------------------------------ claims: display name
\* The local part of an e-mail address: what stands before the '@' (all of it
\* when there is none)
LocalPart(t) ==
  IF \E i \in 1..Len(t) : t[i] = "@"
  THEN SubSeq(t, 1, (CHOOSE i \in 1..Len(t) :
                       t[i] = "@" /\ \A k \in 1..(i - 1) : t[k] # "@") - 1)
  ELSE t

\* The candidates in the order of preference
Candidates(d) ==
  << d.full_name, d.name,
     IF d.email.present THEN Str(LocalPart(d.email.text)) ELSE Undefined,
     Str(UserLiteral) >>

\* The first candidate that is present and not empty
FirstPresentNonEmpty(cs) ==
  cs[CHOOSE i \in 1..Len(cs) :
       /\ cs[i].present /\ cs[i].text # <<>>
       /\ \A k \in 1..(i - 1) : ~ (cs[k].present /\ cs[k].text # <<>>)]

\* C17: the display name derived for a new Profile is the first present and
\* non-empty value of (metadata full_name, metadata name, local part of the
\* e-mail, "User"), for every combination of absent, empty and non-empty
\* inputs, and UserMenu derives the same name.
C17_DisplayName ==
  /\ display.profileName.present
       => display.profileName = FirstPresentNonEmpty(Candidates(display))
  /\ display.menuName.present
       => display.menuName = FirstPresentNonEmpty(Candidates(display))

\* C17 witness: full_name is empty, name is absent, the e-mail has a local
\* part, and both derivations gave that local part
C17_Witness ==
  /\ display.full_name = Str(<<>>)
  /\ display.name = Undefined
  /\ display.email = Str(<<"a", "@">>)
  /\ display.profileName = Str(<<"a">>)
  /\ display.menuName = display.profileName

\* ------------------------------------------------------------------ claims: cascades
OwnedRows(u) ==
  <<{r \in profiles : r.user_id = u}, {r \in jobs : r.user_id = u},
    {r \in applications : r.user_id = u}, {r \in artifacts : r.user_id = u}>>

\* C19: deleting a User removes every Profile, Job, Application and Artifact
\* owned by that user, and every audit entry is kept, in its place and with its
\* content, the acting-user reference of the deleted user's entries being null.
C19_UserDeletion ==
  /\ [](\A u \in Users \ users : OwnedRows(u) = <<{}, {}, {}, {}>>)
  /\ [][\A u \in users \ users' :
          /\ \A r \in profiles' : r.user_id # u
          /\ \A r \in jobs' : r.user_id # u
          /\ \A r \in applications' : r.user_id # u
          /\ \A r \in artifacts' : r.user_id # u
          /\ Len(audit_log') = Len(audit_log)
          /\ \A i \in 1..Len(audit_log) :
               /\ audit_log'[i].action = audit_log[i].action
               /\ audit_log'[i].resource = audit_log[i].resource
               /\ audit_log'[i].resource_id = audit_log[i].resource_id
               /\ audit_log'[i].metadata = audit_log[i].metadata
               /\ audit_log'[i].user_id =
                    IF audit_log[i].user_id = u THEN NoUser ELSE audit_log[i].user_id
     ]_vars

\* C19 witness: a user who had created a job, an application (audited), an
\* artifact and a profile was deleted: the tables are empty again and the audit
\* entry is there with a null acting user
C19_Witness ==
  /\ last.op = "auth.users.delete"
  /\ nextJob > 1 /\ nextApp > 1 /\ nextArt > 1
  /\ jobs = {} /\ applications = {} /\ artifacts = {}
  /\ Cardinality(profiles) = 1 /\ Cardinality(users) = 1
  /\ \E i \in 1..Len(audit_log) :
       audit_log[i].user_id = NoUser /\ audit_log[i].action = "create"

\* C20: deleting a Job deletes every Application and Artifact that references
\* it, and in every reachable state each Application references an existing
\* Job and each Artifact's job reference is null or an existing Job.
C20_JobCascade ==
  /\ [](/\ \A a \in applications : JobExists(a.job_id)
        /\ \A a \in artifacts : a.job_id = NoJob \/ JobExists(a.job_id))
  /\ [][\A j \in jobs \ jobs' :
          /\ \A a \in applications' : a.job_id # j.id
          /\ \A a \in artifacts' : a.job_id # j.id]_vars

\* C20 witness: a job that had an application and a generated CV was deleted
\* by a request on jobs, and an artifact without job is still there
C20_Witness ==
  /\ last.op = "jobs.delete"
  /\ last.result = "ok"
  /\ nextApp > 1
  /\ jobs = {} /\ applications = {}
  /\ \E a \in artifacts : a.job_id = NoJob

\* ------------------------------------------------------------------ claims: profile lifetime
\* C21: a Profile ceases to exist only together with its owning User: across
\* every step, a Profile row that is gone belongs to a user deleted in that
\* step.
C21_ProfileOnlyCascades ==
  [][\A p \in profiles :
       (\A q \in profiles' : q.id # p.id) => p.user_id \in users \ users']_vars

\* ------------------------------------------------------------------ claims: audit ordering
\* The delete audit entries that retain application id
DeleteAudits(id) ==
  {i \in 1..Len(audit_log) :
     /\ audit_log[i].action = "delete"
     /\ audit_log[i].resource = "application"
     /\ audit_log[i].resource_id = id}

\* C22: in every reachable state an Application that deleteApplication has
\* deleted (its identifier was handed out and its row is gone) has exactly one
\* audit entry with action "delete", resource "application" and its identifier.
C22_DeleteIsAudited ==
  \A id \in 1..(nextApp - 1) : AppById(id) = {} => Cardinality(DeleteAudits(id)) = 1

\* The audit entry a step appended, as a set of at most one
Appended ==
  IF Len(audit_log') = Len(audit_log) + 1 THEN {audit_log'[Len(audit_log')]} ELSE {}

\* C23: an audit entry is never visible without the change it describes: in
\* the state in which a "create" or "update" application entry appears, the
\* Application it names is stored, newly so for "create" and with the logged
\* new status (and, before, the logged old status) for "update".
C23_AuditAfterCommit ==
  [][\A e \in Appended :
       /\ (e.action = "create" /\ e.resource = "application")
            => \E a \in applications' \ applications :
                 a.id = e.resource_id /\ a.user_id = e.user_id
       /\ (e.action = "update" /\ e.resource = "application")
            => /\ \E a \in applications' :
                    a.id = e.resource_id /\ a.status = e.metadata[2]
               /\ \E a \in applications :
                    a.id = e.resource_id /\ a.status = e.metadata[1]]_vars

\* C23 witness: a create and an update are in the audit log, and a
\* createApplication that failed as a duplicate has left no entry
C23_Witness ==
  /\ Len(audit_log) = 2
  /\ audit_log[1].action = "create"
  /\ audit_log[2].action = "update"
  /\ last.op = "createApplication"
  /\ last.result = "DuplicateApplication"

\* ------------------------------------------------------------------ C24
\* C24: ensureProfile is invoked exactly once in a request whose code exchange
\* succeeds, and not at all in a request without code, without configuration or
\* with an exchange error
ExchangeSucceeds ==
  /\ Truthy(callback.code)
  /\ Truthy(callback.url)
  /\ Truthy(callback.key)
  /\ ~ callback.exchangeError.present

C24_EnsureOncePerExchange ==
  /\ callback.pc \in {"exchange", "ensure"} => callback.ensureCalls = 0
  /\ callback.pc = "done" =>
       callback.ensureCalls = IF ExchangeSucceeds THEN 1 ELSE 0

C24_Witness ==
  /\ callback.pc = "done"
  /\ callback.ensureCalls = 1
  /\ callback.ensureResult = "Failed to create profile"

\* ------------------------------------------------------------------ C25
\* C25: the handler ends in exactly one redirect: to /login?error=configuration
\* with a code and without URL or key, to /login?error=<encoded message> on an
\* exchange error, to next (default /dashboard) otherwise; with a code it
\* redirects to next only after the exchange succeeded
ReservedChars == {" ", "&"}

C26_ProvisioningFailureSurfaced ==
  (callback.pc = "done" /\ callback.ensureResult \notin {"none", "success"})
    => callback.redirect.error.present

\* ------------------------------------------------------------------ C27
\* C27: whatever next is, the final redirect targets the origin of the request
C27_SameOriginRedirect ==
  callback.pc = "done" => callback.redirect.origin = RequestOrigin

\* ------------------------------------------------------------------ C28
\* C28: the owner of a Profile, Job, Application or Artifact never changes
\* after creation, and no insert or update permitted to a user yields a row
\* owned by another user
OwnerKept(old, new) ==
  \A r \in old, q \in new : r.id = q.id => r.user_id = q.user_id

\* A write in the session of user uid
WriteBy(uid) ==
  \/ \E userId \in Users : InsertJob(uid, userId, DefaultStatus)
  \/ \E userId \in Users, jobId \in JobIds : InsertApplication(uid, userId, jobId)
  \/ \E userId \in Users : InsertArtifact(uid, userId, NoJob, "message")
  \/ \E userId \in Users : InsertProfile(uid, userId)
  \/ \E id \in JobIds, st \in JobUpdates : UpdateJob(uid, id, st)
  \/ \E id \in AppIds, st \in ApplicationUpdates : UpdateApplication(uid, id, st)
  \/ \E id \in JobIds, newOwner \in Users : SetJobOwner(uid, id, newOwner)
  \/ \E id \in AppIds, newOwner \in Users : SetApplicationOwner(uid, id, newOwner)
  \/ \E id \in ArtIds, newOwner \in Users : SetArtifactOwner(uid, id, newOwner)
  \/ \E userId \in Users, newOwner \in Users : SetProfileOwner(uid, userId, newOwner)

\* The rows a step stores: inserted, or updated to a new value
Written ==
  (jobs' \ jobs) \cup (applications' \ applications)
    \cup (artifacts' \ artifacts) \cup (profiles' \ profiles)

C28_OwnerImmutable ==
  [][/\ OwnerKept(jobs, jobs')
     /\ OwnerKept(applications, applications')
     /\ OwnerKept(artifacts, artifacts')
     /\ OwnerKept(profiles, profiles')
     /\ Written # {} =>
          \A uid \in Users : WriteBy(uid) => \A r \in Written : r.user_id = uid]_vars

C28_Witness ==
  /\ last.op = "applications.setOwner"
  /\ last.result = "42501"
  /\ \E a \in applications : a.status = "rejected"

\* ------------------------------------------------------------------ C29
\* C29: validateEnv returns as missing exactly the required names that are
\* unset, empty or whitespace only, in declaration order, and valid exactly
\* when none is missing; assertEnv throws exactly when valid is false and
\* leaves the environment as it is
Blank(v) ==
  ~ v.present \/ \A i \in 1..Len(v.text) : v.text[i] \in {" ", "\t"}

BlankNames ==
  SelectSeq(<<"NEXT_PUBLIC_SUPABASE_URL", "NEXT_PUBLIC_SUPABASE_ANON_KEY",
              "SUPABASE_SERVICE_ROLE_KEY", "OPENAI_API_KEY">>,
            LAMBDA k : Blank(env.values[k]))

ResolvedLogouts ==
  {i \in 1..Len(mock.resolved) : mock.resolved[i].kind = "logout"}

LastResolvedLogout ==
  CHOOSE i \in ResolvedLogouts : \A j \in ResolvedLogouts : j <= i

C30_LogoutSticks ==
  mock.pc = "loaded" =>
    /\ (ResolvedLogouts # {} /\ IsAuthenticated) =>
         \E j \in (LastResolvedLogout + 1)..Len(mock.resolved) :
           /\ mock.resolved[j].kind = "login"
           /\ mock.resolved[j].id > mock.resolved[LastResolvedLogout].id
    /\ IsAuthenticated <=> GetCurrentUser # "null"

====
